---- MODULE Spec2Model ----
(***************************************************************************)
(* Model of src/services/pagination/Paginator.js: one Paginator instance,  *)
(* its constructor, its accessors and the asynchronous executeQuery, with  *)
(* up to MaxCalls accessor calls issued by the caller, possibly without    *)
(* awaiting the previous one.  Every step between two awaits of the code   *)
(* is one action.                                                          *)
(***************************************************************************)
EXTENDS Integers, Sequences, FiniteSets, TLC

\* ---- bounds of the model ----
MaxCalls == 2        \* accessor calls issued on the instance
MaxPerPage == 2      \* largest perPage argument tried
MaxPage == 2         \* largest currentPage argument tried
MaxVersion == 2      \* distinct row contents the data source may answer with

\* ---- JavaScript values ----
Val(t, n, rows) == [t |-> t, n |-> n, rows |-> rows]
Undefined == Val("undefined", 0, <<>>)
Null == Val("null", 0, <<>>)
Str == Val("string", 0, <<>>)
False == Val("boolean", 0, <<>>)
Num(n) == Val("number", n, <<>>)
Row(r) == Val("row", r, <<>>)
Arr(rows) == Val("array", 0, rows)
Obj == Val("object", 0, <<>>)
TypeOf(v) == v.t

FILE == "Services/pagination/Paginator"

\* arguments the caller may pass to the constructor
SqlArgs == {"SELECT id FROM t"}
SqlParamsArgs == {<<7>>}
PerPageArgs == {Undefined, Str} \cup {Num(n) : n \in -1..MaxPerPage}
CurrentPageArgs == {Undefined, Null, Str} \cup {Num(n) : n \in -1..MaxPage}

\* errors the data source may fail with
DbErrors == {"ER_CONN", "ER_PARSE"}

VARIABLES
    instance,         \* "new" before the constructor ran, then "ready" or "rejected"
    thrown,           \* what the constructor threw ("" when nothing)
    args,             \* the arguments the constructor was called with
    sqlProp, sqlParamsProp, perPageProp, currentPageProp,
    hasNext, response,
    calls,            \* the accessor calls, by slot
    selects,          \* every db.select call so far, in order
    answered          \* <<rows>> of the latest answer of db.select, <<>> before it

vars == <<instance, thrown, args, sqlProp, sqlParamsProp, perPageProp,
          currentPageProp, hasNext, response, calls, selects, answered>>

Slots == 1..MaxCalls

AsyncOps == {"count", "nextPage", "firstItem", "lastItem", "items", "toObject"}
SyncOps == {"previousPage", "currentPage", "perPage"}

EmptyObject == [count |-> Undefined, previous_page |-> Undefined,
                current_page |-> Undefined, next_page |-> Undefined,
                per_page |-> Undefined, items |-> Undefined]

NoQuery == [text |-> "", params |-> <<>>, limit |-> 0, offset |-> 0]

NoCall == [op |-> "none", pc |-> "idle", stage |-> "none", result |-> Undefined,
           obj |-> EmptyObject, rejection |-> "", error |-> "", started |-> 0,
           query |-> NoQuery,
           alone |-> TRUE]

\* the default parameter value: currentPage = null
DefaultCurrentPage(a) == IF a = Undefined THEN Null ELSE a

\* a default that only replaces a missing page number
OrOne_KeepsZero(a) == IF TypeOf(a) = "number" THEN a.n ELSE 1

\* currentPage || 1
OrOne(a) == IF TypeOf(a) = "number" /\ a.n # 0 THEN a.n ELSE 1

\* a constructor that checks the page number before the page size
ConstructorThrows_PageFirst(perPage, currentPage) ==
    IF currentPage # Null /\ TypeOf(currentPage) # "number"
    THEN "INVALID_TYPE_CURRENT_PAGE"
    ELSE IF TypeOf(perPage) = "undefined" THEN "MISSING_REQUIRED_PER_PAGE"
    ELSE IF TypeOf(perPage) # "number" THEN "INVALID_TYPE_PER_PAGE"
    ELSE ""

\* the constructor's checks, in order; "" when the arguments are accepted
ConstructorThrows(perPage, currentPage) ==
    IF TypeOf(perPage) = "undefined" THEN "MISSING_REQUIRED_PER_PAGE"
    ELSE IF TypeOf(perPage) # "number" THEN "INVALID_TYPE_PER_PAGE"
    ELSE IF currentPage # Null /\ TypeOf(currentPage) # "number"
         THEN "INVALID_TYPE_CURRENT_PAGE"
    ELSE ""

Init ==
    /\ instance = "new"
    /\ thrown = ""
    /\ args = [sql |-> "", sqlParams |-> <<>>, perPage |-> Undefined,
               currentPage |-> Undefined]
    /\ sqlProp = ""
    /\ sqlParamsProp = <<>>
    /\ perPageProp = 0
    /\ currentPageProp = 0
    /\ hasNext = FALSE
    /\ response = <<>>
    /\ calls = [s \in Slots |-> NoCall]
    /\ selects = <<>>
    /\ answered = <<>>

\* new Paginator(sql, sqlParams, perPage, currentPage)
Construct ==
    /\ instance = "new"
    /\ \E sql \in SqlArgs, sqlParams \in SqlParamsArgs,
          perPage \in PerPageArgs, cp \in CurrentPageArgs :
         LET currentPage == DefaultCurrentPage(cp)
             code == ConstructorThrows(perPage, currentPage)
         IN /\ args' = [sql |-> sql, sqlParams |-> sqlParams,
                        perPage |-> perPage, currentPage |-> cp]
            /\ IF code # ""
               THEN /\ instance' = "rejected"
                    /\ thrown' = FILE \o "::" \o code
                    /\ UNCHANGED <<sqlProp, sqlParamsProp, perPageProp,
                                   currentPageProp, hasNext, response>>
               ELSE /\ instance' = "ready"
                    /\ thrown' = ""
                    /\ sqlProp' = sql
                    /\ sqlParamsProp' = sqlParams
                    /\ perPageProp' = perPage.n
                    /\ currentPageProp' = OrOne(currentPage)
                    /\ hasNext' = FALSE
                    /\ response' = <<>>
    /\ UNCHANGED <<calls, selects, answered>>

\* ---- synchronous accessors ----
currentPage == currentPageProp

perPage == perPageProp

\* a previousPage that also answers on page 1
previousPage_FromOne == IF currentPage >= 1 THEN Num(currentPage - 1) ELSE False

previousPage == IF currentPage > 1 THEN Num(currentPage - 1) ELSE False

\* ---- the window and the query text ----
\* a window that forgets to step back one page
getLimitAndOffset_NoStepBack ==
    [offset |-> currentPage * perPage, limit |-> perPage]

getLimitAndOffsetByPageAndContentPerPage ==
    [offset |-> currentPage * perPage - perPage, limit |-> perPage]

generatePaginationSqlSnippet ==
    LET values == getLimitAndOffsetByPageAndContentPerPage
        limitWithExtraData == values.limit + 1
    IN sqlProp \o " LIMIT " \o ToString(limitWithExtraData)
               \o " OFFSET " \o ToString(values.offset)

\* a db.select call that drops the bind values
DbSelect_NoParams ==
    LET values == getLimitAndOffsetByPageAndContentPerPage
    IN [text |-> generatePaginationSqlSnippet, params |-> <<>>,
        limit |-> values.limit + 1, offset |-> values.offset]

\* the db.select call of executeQuery: the text and the bind values handed over,
\* with the window the data source reads from the text
DbSelect ==
    LET values == getLimitAndOffsetByPageAndContentPerPage
    IN [text |-> generatePaginationSqlSnippet, params |-> sqlParamsProp,
        limit |-> values.limit + 1, offset |-> values.offset]

\* ---- the data source ----
Rows(v, n) == [i \in 1..n |-> 10 * v + i]

\* what the data source may answer to a query with LIMIT limit
DbRows(limit) ==
    {Rows(v, n) : v \in 1..MaxVersion, n \in 0..(IF limit > 0 THEN limit ELSE 0)}

\* ---- executeQuery, after db.select resolved with rows ----
\* a pop that removes the first row instead of the last
Pop_Shift(rows) == IF rows = <<>> THEN rows ELSE Tail(rows)

Pop(rows) == IF rows = <<>> THEN rows ELSE SubSeq(rows, 1, Len(rows) - 1)

\* a comparison that takes a full page for an over-fetched one
HasNextOf_AtLeast(rows) == Len(rows) >= perPage

\* a comparison that never sees a next page
HasNextOf_Never(rows) == FALSE

HasNextOf(rows) == Len(rows) > perPage

\* an executeQuery that keeps the over-fetched row
ResponseOf_NoTrim(rows) == rows

\* an executeQuery that pops whatever came back
ResponseOf_TrimAlways(rows) == Pop(rows)

ResponseOf(rows) == IF HasNextOf(rows) THEN Pop(rows) ELSE rows

\* ---- what each result-dependent accessor returns from the cache ----
\* a cache check that fetches only when nothing was ever executed
NeedsFetch_OnlyFirst == Len(response) <= 0 /\ selects = <<>>

\* a cache check that joins an execution already in flight
NeedsFetch_Coalesced ==
    Len(response) <= 0 /\ \A s \in Slots : calls[s].pc # "awaitExec"

NeedsFetch == Len(response) <= 0

AccessorValue(op) ==
    CASE op = "count" -> Num(Len(response))
      [] op = "nextPage" -> IF hasNext THEN Num(currentPage + 1) ELSE False
      [] op = "firstItem" ->
            IF Len(response) >= 1 THEN Row(response[1]) ELSE Undefined
      [] op = "lastItem" ->
            IF Len(response) >= 1 THEN Row(response[Len(response)]) ELSE Undefined
      [] op = "items" -> Arr(response)

SyncValue(op) ==
    CASE op = "previousPage" -> previousPage
      [] op = "currentPage" -> Num(currentPage)
      [] op = "perPage" -> Num(perPage)

\* ---- the calls ----
Pending(c) == c.pc \in {"awaitExec", "accessorResume", "outerResume"}

NoPending == \A s \in Slots : ~Pending(calls[s])

\* slots are used in order
FirstIdle(s) ==
    /\ calls[s].pc = "idle"
    /\ \A t \in Slots : t < s => calls[t].pc # "idle"

\* the call starts executeQuery and waits for it
Await(c, stage) ==
    [c EXCEPT !.pc = "awaitExec", !.stage = stage, !.started = @ + 1,
              !.query = DbSelect]

SetField(obj, stage, v) ==
    CASE stage = "count" -> [obj EXCEPT !.count = v]
      [] stage = "nextPage" -> [obj EXCEPT !.next_page = v]
      [] stage = "items" -> [obj EXCEPT !.items = v]

\* toObject calls this.<stage>() and awaits its promise
EnterInner(c, stage) ==
    IF NeedsFetch
    THEN Await(c, stage)
    ELSE [c EXCEPT !.pc = "outerResume", !.stage = stage,
                   !.obj = SetField(@, stage, AccessorValue(stage))]

\* the db.select calls after a step that took call c to call d
SelectsAfter(c, d) ==
    IF d.started > c.started THEN Append(selects, DbSelect) ELSE selects

Issued(op) == [NoCall EXCEPT !.op = op, !.alone = NoPending]

\* synchronous accessors that go to the data source first
CallSync_Fetches(s) ==
    /\ instance = "ready"
    /\ FirstIdle(s)
    /\ \E op \in SyncOps :
         calls' = [calls EXCEPT ![s] =
                     [Issued(op) EXCEPT !.pc = "done", !.result = SyncValue(op)]]
    /\ selects' = Append(selects, DbSelect)
    /\ UNCHANGED <<instance, thrown, args, sqlProp, sqlParamsProp, perPageProp,
                   currentPageProp, hasNext, response, answered>>

\* perPage(), currentPage(), previousPage()
CallSync(s) ==
    /\ instance = "ready"
    /\ FirstIdle(s)
    /\ \E op \in SyncOps :
         calls' = [calls EXCEPT ![s] =
                     [Issued(op) EXCEPT !.pc = "done", !.result = SyncValue(op)]]
    /\ UNCHANGED <<instance, thrown, args, sqlProp, sqlParamsProp, perPageProp,
                   currentPageProp, hasNext, response, selects, answered>>

\* count(), nextPage(), firstItem(), lastItem(), items(): up to the first await
CallAccessor(s) ==
    /\ instance = "ready"
    /\ FirstIdle(s)
    /\ \E op \in AsyncOps \ {"toObject"} :
         LET c == Issued(op)
             d == IF NeedsFetch
                  THEN Await(c, op)
                  ELSE [c EXCEPT !.pc = "done", !.result = AccessorValue(op)]
         IN /\ calls' = [calls EXCEPT ![s] = d]
            /\ selects' = SelectsAfter(c, d)
    /\ UNCHANGED <<instance, thrown, args, sqlProp, sqlParamsProp, perPageProp,
                   currentPageProp, hasNext, response, answered>>

\* toObject(): up to the first await
CallToObject(s) ==
    /\ instance = "ready"
    /\ FirstIdle(s)
    /\ LET c == Issued("toObject")
           d == IF NeedsFetch THEN Await(c, "toObject") ELSE EnterInner(c, "count")
       IN /\ calls' = [calls EXCEPT ![s] = d]
          /\ selects' = SelectsAfter(c, d)
    /\ UNCHANGED <<instance, thrown, args, sqlProp, sqlParamsProp, perPageProp,
                   currentPageProp, hasNext, response, answered>>

\* db.select resolves: the rest of executeQuery runs in one piece
ExecResolve(s) ==
    /\ calls[s].pc = "awaitExec"
    /\ \E rows \in DbRows(calls[s].query.limit) :
         /\ hasNext' = HasNextOf(rows)
         /\ response' = ResponseOf(rows)
         /\ answered' = <<rows>>
    /\ calls' = [calls EXCEPT ![s].pc = "accessorResume"]
    /\ UNCHANGED <<instance, thrown, args, sqlProp, sqlParamsProp, perPageProp,
                   currentPageProp, selects>>

\* no try/catch anywhere: an await rethrows the reason of the rejection
Rethrown(e) == e

\* db.select rejects: executeQuery, the accessor and (inside toObject) toObject
\* reject with the same error
ExecReject(s) ==
    /\ calls[s].pc = "awaitExec"
    /\ \E e \in DbErrors :
         calls' = [calls EXCEPT ![s].pc = "failed", ![s].rejection = e,
                                ![s].error = Rethrown(e)]
    /\ UNCHANGED <<instance, thrown, args, sqlProp, sqlParamsProp, perPageProp,
                   currentPageProp, hasNext, response, selects, answered>>

\* an accessor that executes again as long as the cache is empty
AccessorResume_Retry(s) ==
    /\ calls[s].pc = "accessorResume"
    /\ LET c == calls[s]
           d == IF NeedsFetch
                THEN Await(c, c.stage)
                ELSE IF c.op # "toObject"
                THEN [c EXCEPT !.pc = "done", !.result = AccessorValue(c.op)]
                ELSE IF c.stage = "toObject"
                THEN EnterInner(c, "count")
                ELSE [c EXCEPT !.pc = "outerResume",
                               !.obj = SetField(@, c.stage, AccessorValue(c.stage))]
       IN /\ calls' = [calls EXCEPT ![s] = d]
          /\ selects' = SelectsAfter(c, d)
    /\ UNCHANGED <<instance, thrown, args, sqlProp, sqlParamsProp, perPageProp,
                   currentPageProp, hasNext, response, answered>>

\* the code after "await this.executeQuery()" runs
AccessorResume(s) ==
    /\ calls[s].pc = "accessorResume"
    /\ LET c == calls[s]
           d == IF c.op # "toObject"
                THEN [c EXCEPT !.pc = "done", !.result = AccessorValue(c.op)]
                ELSE IF c.stage = "toObject"
                THEN EnterInner(c, "count")
                ELSE [c EXCEPT !.pc = "outerResume",
                               !.obj = SetField(@, c.stage, AccessorValue(c.stage))]
       IN /\ calls' = [calls EXCEPT ![s] = d]
          /\ selects' = SelectsAfter(c, d)
    /\ UNCHANGED <<instance, thrown, args, sqlProp, sqlParamsProp, perPageProp,
                   currentPageProp, hasNext, response, answered>>

\* toObject goes on after "await this.count()", "await this.nextPage()" or
\* "await this.items()"
ToObjectResume(s) ==
    /\ calls[s].pc = "outerResume"
    /\ LET c == calls[s]
           d == CASE c.stage = "count" ->
                       EnterInner([c EXCEPT !.obj.previous_page = previousPage,
                                            !.obj.current_page = Num(currentPage)],
                                  "nextPage")
                  [] c.stage = "nextPage" ->
                       EnterInner([c EXCEPT !.obj.per_page = Num(perPage)], "items")
                  [] c.stage = "items" ->
                       [c EXCEPT !.pc = "done", !.result = Obj]
       IN /\ calls' = [calls EXCEPT ![s] = d]
          /\ selects' = SelectsAfter(c, d)
    /\ UNCHANGED <<instance, thrown, args, sqlProp, sqlParamsProp, perPageProp,
                   currentPageProp, hasNext, response, answered>>

Next ==
    \/ Construct
    \/ \E s \in Slots : CallSync(s)
    \/ \E s \in Slots : CallAccessor(s)
    \/ \E s \in Slots : CallToObject(s)
    \/ \E s \in Slots : ExecResolve(s)
    \/ \E s \in Slots : ExecReject(s)
    \/ \E s \in Slots : AccessorResume(s)
    \/ \E s \in Slots : ToObjectResume(s)

Spec == Init /\ [][Next]_vars

\* ---- vocabulary of the properties ----
IssuedCalls == {s \in Slots : calls[s].pc # "idle"}

\* every call was issued when no earlier call was still pending
Sequential == \A s \in IssuedCalls : calls[s].alone

NoFailure == \A s \in Slots : calls[s].pc # "failed"

\* call s is issued in this step
Issues(s) == calls[s].pc = "idle" /\ calls'[s].pc # "idle"

\* call s returns its value in this step
Returns(s) == calls[s].pc # "done" /\ calls'[s].pc = "done"

\* C1: in a run of awaited result-dependent calls whose executions all succeed,
\* the data source is executed exactly once (stated for the instances with a
\* positive page size and page number, where the claim already fails).
C1_SingleExecution ==
    (/\ instance = "ready"
     /\ perPage >= 1
     /\ currentPage >= 1
     /\ Sequential
     /\ NoFailure
     /\ \E s \in IssuedCalls : calls[s].op \in AsyncOps)
    => Len(selects) = 1

\* the latest answer of the data source, after this step
LatestRows == answered'[1]

\* C2: when the data source answered pageSize + 1 rows, items() returns the
\* first pageSize of them in order, count() returns pageSize and nextPage()
\* returns currentPage() + 1 (pageSize >= 1, pageNumber >= 1).
C2_FullPagePlusOne ==
    [][\A s \in Slots :
         (/\ Returns(s)
          /\ perPage >= 1
          /\ currentPage >= 1
          /\ answered' # <<>>
          /\ Len(LatestRows) = perPage + 1)
         => /\ calls'[s].op = "items"
                 => calls'[s].result = Arr([i \in 1..perPage |-> LatestRows[i]])
            /\ calls'[s].op = "count" => calls'[s].result = Num(perPage)
            /\ calls'[s].op = "nextPage"
                 => calls'[s].result = Num(currentPage + 1)]_vars

C2_Witness ==
    /\ instance = "ready"
    /\ perPage = 2
    /\ answered # <<>>
    /\ Len(answered[1]) = 3
    /\ \E s \in Slots : calls[s].pc = "done" /\ calls[s].op = "items"
    /\ \E s \in Slots : calls[s].pc = "done" /\ calls[s].op = "nextPage"
                         /\ calls[s].result = Num(currentPage + 1)

\* C3: when the data source answered k <= pageSize rows, items() returns all
\* k rows in order, count() returns k and nextPage() returns false
\* (pageSize >= 1).
C3_ShortPage ==
    [][\A s \in Slots :
         (/\ Returns(s)
          /\ perPage >= 1
          /\ answered' # <<>>
          /\ Len(LatestRows) <= perPage)
         => /\ calls'[s].op = "items" => calls'[s].result = Arr(LatestRows)
            /\ calls'[s].op = "count" => calls'[s].result = Num(Len(LatestRows))
            /\ calls'[s].op = "nextPage" => calls'[s].result = False]_vars

C3_Witness ==
    /\ instance = "ready"
    /\ perPage = 2
    /\ answered # <<>>
    /\ Len(answered[1]) = 2
    /\ \E s \in Slots : /\ calls[s].pc = "done"
                         /\ calls[s].op = "items"
                         /\ calls[s].result = Arr(answered[1])
    /\ \E s \in Slots : /\ calls[s].pc = "done"
                         /\ calls[s].op = "nextPage"
                         /\ calls[s].result = False

\* C4: for pageNumber >= 1 and pageSize > 0 every execution requests
\* LIMIT pageSize + 1 and OFFSET (pageNumber - 1) * pageSize.
C4_Window ==
    (/\ instance = "ready"
     /\ TypeOf(args.currentPage) = "number"
     /\ args.currentPage.n >= 1
     /\ args.perPage.n > 0)
    => \A i \in 1..Len(selects) :
         LET pageSize == args.perPage.n
             pageNumber == args.currentPage.n
         IN /\ selects[i].limit = pageSize + 1
            /\ selects[i].offset = (pageNumber - 1) * pageSize
            /\ selects[i].text = args.sql \o " LIMIT " \o ToString(pageSize + 1)
                                   \o " OFFSET "
                                   \o ToString((pageNumber - 1) * pageSize)

C4_Witness ==
    /\ instance = "ready"
    /\ args.perPage = Num(2)
    /\ args.currentPage = Num(2)
    /\ Len(selects) >= 2
    /\ selects[1].text = "SELECT id FROM t LIMIT 3 OFFSET 2"

\* C5: a failed execution reaches the caller with the data source's error,
\* starts nothing more for that call, leaves response and hasNext as they
\* were, and the next result-dependent call on the empty cache executes anew.
C5_FailedFetch ==
    [][\A s \in Slots :
         /\ (calls[s].pc = "awaitExec" /\ calls'[s].pc = "failed")
              => /\ calls'[s].error = calls'[s].rejection
                 /\ calls'[s].error \in DbErrors
                 /\ response' = response
                 /\ hasNext' = hasNext
                 /\ selects' = selects
         /\ calls[s].pc = "failed" => calls'[s] = calls[s]
         /\ (Issues(s) /\ calls'[s].op \in AsyncOps /\ response = <<>>)
              => /\ calls'[s].pc = "awaitExec"
                 /\ Len(selects') = Len(selects) + 1]_vars

C5_Witness ==
    /\ response = <<>>
    /\ \E s, t \in Slots : /\ s < t
                            /\ calls[s].pc = "failed"
                            /\ calls[s].started = 1
                            /\ calls[t].alone
                            /\ calls[t].pc = "awaitExec"
                            /\ Len(selects) = 2

\* the page number counts as supplied unless it is left out or is null, the
\* default of the parameter
Supplied(a) == a # Undefined /\ a # Null

\* C6: the outcome of the construction is decided by the arguments: missing
\* page size, then non-numeric page size, then non-numeric page number,
\* else success; a failed construction executes nothing.
C6_Construction ==
    instance # "new"
    => /\ IF args.perPage = Undefined
          THEN instance = "rejected"
               /\ thrown = "Services/pagination/Paginator::MISSING_REQUIRED_PER_PAGE"
          ELSE IF TypeOf(args.perPage) # "number"
          THEN instance = "rejected"
               /\ thrown = "Services/pagination/Paginator::INVALID_TYPE_PER_PAGE"
          ELSE IF Supplied(args.currentPage) /\ TypeOf(args.currentPage) # "number"
          THEN instance = "rejected"
               /\ thrown = "Services/pagination/Paginator::INVALID_TYPE_CURRENT_PAGE"
          ELSE instance = "ready" /\ thrown = ""
       /\ instance = "rejected" => selects = <<>> /\ IssuedCalls = {}

C6_Witness ==
    /\ instance = "rejected"
    /\ args.perPage = Str
    /\ args.currentPage = Str
    /\ thrown = "Services/pagination/Paginator::INVALID_TYPE_PER_PAGE"

C8_AtMostPageSize ==
    (instance = "ready" /\ perPage >= 1) => Len(response) <= perPage

C8_Witness ==
    /\ instance = "ready"
    /\ perPage = 2
    /\ answered # <<>>
    /\ Len(answered[1]) = 3
    /\ Len(response) = 2
    /\ \E s \in Slots : calls[s].pc = "failed"

\* C9: currentPage() is an integer >= 1 for every page number the
\* constructor accepted, and never changes.
C9_CurrentPagePositive ==
    [][instance' = "ready"
       => /\ currentPageProp' >= 1
          /\ instance = "ready" => currentPageProp' = currentPageProp]_vars

\* C10: perPage() is a positive integer for every page size the constructor
\* accepted, and never changes.
C10_PerPagePositive ==
    [][instance' = "ready"
       => /\ perPageProp' >= 1
          /\ instance = "ready" => perPageProp' = perPageProp]_vars

\* C11: the data source is not executed by the construction nor by perPage(),
\* currentPage() and previousPage(): no db.select before the first call of a
\* result-dependent accessor.
C11_LazyUntilFirstAccess ==
    (\A s \in IssuedCalls : calls[s].op \in SyncOps)
    => selects = <<>> /\ answered = <<>> /\ response = <<>>

C11_Witness ==
    /\ instance = "ready"
    /\ IssuedCalls = Slots
    /\ \E s \in Slots : calls[s].op = "perPage"
    /\ \E s \in Slots : calls[s].op = "previousPage" \/ calls[s].op = "currentPage"
    /\ selects = <<>>

\* C12: the summary a lone, awaited toObject() returns is consistent when all
\* executions succeed: count is the number of items, at most per_page of them,
\* the page fields are those of the instance, and next_page is
\* current_page + 1 exactly when the execution behind items returned more than
\* per_page rows (stated for instances with positive page size and number).
C12_SummaryConsistent ==
    \A s \in Slots :
      (/\ calls[s].op = "toObject"
       /\ calls[s].pc = "done"
       /\ perPage >= 1
       /\ currentPage >= 1
       /\ Sequential
       /\ NoFailure
       /\ \A t \in Slots : t > s => calls[t].pc = "idle")
      => LET o == calls[s].obj
         IN /\ o.count = Num(Len(o.items.rows))
            /\ Len(o.items.rows) <= perPage
            /\ o.per_page = Num(perPage)
            /\ o.current_page = Num(currentPage)
            /\ o.previous_page = previousPage
            /\ o.next_page = IF Len(answered[1]) > perPage
                              THEN Num(currentPage + 1) ELSE False

\* C13: a page beyond the data is no error: when the data source answered zero
\* rows, count() is 0, items() is empty, nextPage() is false and firstItem()
\* and lastItem() are undefined.
C13_EmptyPage ==
    [][\A s \in Slots :
         (Returns(s) /\ answered' # <<>> /\ LatestRows = <<>>)
         => /\ calls'[s].op = "count" => calls'[s].result = Num(0)
            /\ calls'[s].op = "items" => calls'[s].result = Arr(<<>>)
            /\ calls'[s].op = "nextPage" => calls'[s].result = False
            /\ calls'[s].op = "firstItem" => calls'[s].result = Undefined
            /\ calls'[s].op = "lastItem" => calls'[s].result = Undefined]_vars

\* C14: every result-dependent call issued while response is empty starts its
\* own execution, whatever is already in flight, so two calls issued back to
\* back on a fresh instance query the data source twice.
C14_DuplicateFetch ==
    [][\A s \in Slots :
         (Issues(s) /\ calls'[s].op \in AsyncOps /\ response = <<>>)
         => /\ calls'[s].pc = "awaitExec"
            /\ calls'[s].started = 1
            /\ selects' = Append(selects, calls'[s].query)]_vars

C14_Witness ==
    /\ answered = <<>>
    /\ calls[1].pc = "awaitExec"
    /\ calls[2].pc = "awaitExec"
    /\ ~calls[2].alone
    /\ Len(selects) = 2

\* C15: once an execution has stored its rows, no later step replaces or
\* modifies response and hasNext (stated from a non-empty response on).
C15_ResultRetained ==
    [][response # <<>> => response' = response /\ hasNext' = hasNext]_vars

\* C16: after a successful execution, hasNext and response stem from the
\* latest answer: hasNext iff it had more than perPage rows, response that
\* answer without its last row iff hasNext.
C16_FieldsInStep ==
    answered # <<>>
    => LET rows == answered[1]
       IN /\ hasNext = (Len(rows) > perPage)
          /\ response = IF hasNext
                         THEN [i \in 1..(Len(rows) - 1) |-> rows[i]]
                         ELSE rows

C16_Witness ==
    /\ hasNext
    /\ Len(response) = 2
    /\ \E s \in Slots : /\ calls[s].pc = "done"
                         /\ calls[s].op = "items"
                         /\ calls[s].result # Arr(response)

\* the position a row had in the answer of the data source
RowIndex(r) == r % 10

NoOverFetchRow(v) ==
    /\ TypeOf(v) = "array" => \A i \in 1..Len(v.rows) : RowIndex(v.rows[i]) # perPage + 1
    /\ TypeOf(v) = "row" => RowIndex(v.n) # perPage + 1

\* C17: no accessor returns a value computed from a response that still holds
\* the over-fetched row, row perPage + 1 of an answer.
C17_OverFetchHidden ==
    \A s \in IssuedCalls :
      LET c == calls[s]
      IN /\ NoOverFetchRow(c.result)
         /\ NoOverFetchRow(c.obj.items)
         /\ (c.op = "count" /\ c.pc = "done")
              => c.result.n = 0 \/ c.result.n <= perPage
         /\ TypeOf(c.obj.count) = "number"
              => c.obj.count.n = 0 \/ c.obj.count.n <= perPage

C17_Witness ==
    /\ perPage = 2
    /\ answered # <<>>
    /\ Len(answered[1]) = 3
    /\ \E s \in Slots : /\ calls[s].pc = "done"
                         /\ calls[s].op = "lastItem"
                         /\ calls[s].result = Row(answered[1][2])
    /\ \E s \in Slots : /\ calls[s].op = "toObject"
                         /\ calls[s].obj.items = Arr(response)

C19_SameQuery ==
    [][instance = "ready"
       => /\ sqlProp' = args.sql
          /\ sqlParamsProp' = args.sqlParams
          /\ perPageProp' = perPageProp
          /\ currentPageProp' = currentPageProp
          /\ args' = args
          /\ \A i \in 1..Len(selects') :
               /\ selects'[i].params = args.sqlParams
               /\ selects'[i].text =
                    args.sql \o " LIMIT " \o ToString(args.perPage.n + 1)
                             \o " OFFSET "
                             \o ToString((currentPageProp - 1) * args.perPage.n)
               /\ selects'[i] = selects'[1]]_vars

C19_Witness ==
    /\ Len(selects) >= 3
    /\ answered # <<>>
    /\ \E s \in Slots : calls[s].pc = "failed"
    /\ \E s \in Slots : calls[s].pc = "awaitExec" /\ ~calls[s].alone

\* the steps a call may still have to take, at most: the accessors toObject
\* has not gone through yet, and within one of them the wait for the data
\* source, the accessor's own continuation and the continuation of toObject
StageRank(c) ==
    IF c.op # "toObject" THEN 0
    ELSE CASE c.stage = "toObject" -> 3
           [] c.stage = "count" -> 2
           [] c.stage = "nextPage" -> 1
           [] c.stage = "items" -> 0

PcRank(c) ==
    CASE c.pc = "awaitExec" -> 3
      [] c.pc = "accessorResume" -> 2
      [] c.pc = "outerResume" -> 1
      [] OTHER -> 0

Measure(c) == IF Pending(c) THEN 3 * StageRank(c) + PcRank(c) ELSE 0

\* the call can take its next step now, whatever the other calls do; for a call
\* waiting for the data source the step is the answer of the data source
CanStep(s) ==
    /\ calls[s].pc = "awaitExec" => ENABLED (ExecResolve(s) \/ ExecReject(s))
    /\ calls[s].pc = "accessorResume" => ENABLED AccessorResume(s)
    /\ calls[s].pc = "outerResume" => ENABLED ToObjectResume(s)

\* C20: when the data source answers every execution, every accessor call
\* ends with a value or a failure: a pending call is never blocked by another
\* call, each of its steps brings it strictly closer to its end, and it
\* starts at most one execution, four for toObject().
C20_Terminates ==
    /\ [](\A s \in Slots :
            /\ CanStep(s)
            /\ calls[s].started <= IF calls[s].op = "toObject" THEN 4 ELSE 1)
    /\ [][\A s \in Slots :
            (Pending(calls[s]) /\ calls'[s] # calls[s])
            => Measure(calls'[s]) < Measure(calls[s])]_vars

C20_Witness ==
    /\ calls[1].op = "toObject"
    /\ calls[1].pc = "done"
    /\ calls[1].started = 4
    /\ calls[2].op = "count"
    /\ calls[2].pc = "done"
    /\ calls[2].started = 1
    /\ ~calls[2].alone
====
